---------------------------- MODULE Spec2Model ----------------------------
(***************************************************************************)
(* A model of create_wiki_structure.py: the script that writes sixteen     *)
(* placeholder wiki pages into the working directory and then prints the   *)
(* manual follow-up instructions.                                          *)
(*                                                                         *)
(* Text (file names, titles, file contents, printed lines) is modelled as  *)
(* sequences of one-character strings so that os.path.splitext,            *)
(* str.replace and str.format are computed character by character.         *)
(* The working directory is a function from the names of the files that    *)
(* exist to their contents; hard links and symbolic links between the      *)
(* page files are outside the model.                                       *)
(***************************************************************************)
EXTENDS Integers, Sequences, FiniteSets

(***************************************************************************)
(* Bounds of the model (not program constants).                            *)
(***************************************************************************)
\* how many files are already in the directory before the first run
MaxPre == 1
\* how many times the script is run in succession, each run but the last
\* one ending successfully
MaxRuns == 2

(***************************************************************************)
(* Program constants.                                                      *)
(***************************************************************************)
\* the list without "Guide-VS-Code.md"
pages_without_vs_code ==
  << <<"H","o","m","e",".","m","d">>,
     <<"P","r","o","j","e","c","t","-","S","t","r","u","c","t","u","r","e",
        ".","m","d">>,
     <<"D","e","v","e","l","o","p","m","e","n","t","-","S","e","t","u","p",
        ".","m","d">>,
     <<"S","e","t","u","p","-","V","S","-","C","o","d","e","-","M","i","n",
        "i","c","o","n","d","a",".","m","d">>,
     <<"S","e","t","u","p","-","O","l","l","a","m","a","-","M","o","d","e",
        "l",".","m","d">>,
     <<"T","o","o","l","s","-","O","v","e","r","v","i","e","w",".","m","d">>,
     <<"G","u","i","d","e","-","C","o","n","d","a",".","m","d">>,
     <<"G","u","i","d","e","-","O","l","l","a","m","a",".","m","d">>,
     <<"G","u","i","d","e","-","C","r","e","w","A","I",".","m","d">>,
     <<"G","u","i","d","e","-","S","e","l","e","n","i","u","m",".","m","d">>,
     <<"G","u","i","d","e","-","B","e","a","u","t","i","f","u","l","S","o",
        "u","p",".","m","d">>,
     <<"G","u","i","d","e","-","A","n","y","t","h","i","n","g","L","L","M",
        ".","m","d">>,
     <<"G","u","i","d","e","-","L","a","n","g","C","h","a","i","n",".","m",
        "d">>,
     <<"G","u","i","d","e","-","D","o","c","k","e","r",".","m","d">>,
     <<"G","u","i","d","e","-","W","S","L",".","m","d">> >>

\* create_wiki_structure.py:4-21
pages ==
  << <<"H","o","m","e",".","m","d">>,
     <<"P","r","o","j","e","c","t","-","S","t","r","u","c","t","u","r","e",
        ".","m","d">>,
     <<"D","e","v","e","l","o","p","m","e","n","t","-","S","e","t","u","p",
        ".","m","d">>,
     <<"S","e","t","u","p","-","V","S","-","C","o","d","e","-","M","i","n",
        "i","c","o","n","d","a",".","m","d">>,
     <<"S","e","t","u","p","-","O","l","l","a","m","a","-","M","o","d","e",
        "l",".","m","d">>,
     <<"T","o","o","l","s","-","O","v","e","r","v","i","e","w",".","m","d">>,
     <<"G","u","i","d","e","-","V","S","-","C","o","d","e",".","m","d">>,
     <<"G","u","i","d","e","-","C","o","n","d","a",".","m","d">>,
     <<"G","u","i","d","e","-","O","l","l","a","m","a",".","m","d">>,
     <<"G","u","i","d","e","-","C","r","e","w","A","I",".","m","d">>,
     <<"G","u","i","d","e","-","S","e","l","e","n","i","u","m",".","m","d">>,
     <<"G","u","i","d","e","-","B","e","a","u","t","i","f","u","l","S","o",
        "u","p",".","m","d">>,
     <<"G","u","i","d","e","-","A","n","y","t","h","i","n","g","L","L","M",
        ".","m","d">>,
     <<"G","u","i","d","e","-","L","a","n","g","C","h","a","i","n",".","m",
        "d">>,
     <<"G","u","i","d","e","-","D","o","c","k","e","r",".","m","d">>,
     <<"G","u","i","d","e","-","W","S","L",".","m","d">> >>

\* a template whose first link is labelled with the title of the page
placeholder_content_titled_link ==
  <<"#"," ","{","t","i","t","l","e","}","\n","\n","[","T","h","i","s"," ",
    "i","s"," ","a"," ","p","l","a","c","e","h","o","l","d","e","r","."," ",
    "O","r","i","g","i","n","a","l"," ","c","o","n","t","e","n","t"," ","t",
    "o"," ","b","e"," ","m","i","g","r","a","t","e","d",".","]","\n","\n",
    "#","#"," ","N","a","v","i","g","a","t","i","o","n","\n","-"," ","[",
    "{","t","i","t","l","e","}","]","(","H","o","m","e",")","\n","-"," ",
    "[","P","r","o","j","e","c","t"," ","S","t","r","u","c","t","u","r","e",
    "]","(","P","r","o","j","e","c","t","-","S","t","r","u","c","t","u","r",
    "e",")","\n","-"," ","[","D","e","v","e","l","o","p","m","e","n","t",
    " ","S","e","t","u","p","]","(","D","e","v","e","l","o","p","m","e","n",
    "t","-","S","e","t","u","p",")","\n","-"," ","[","T","o","o","l","s",
    " ","O","v","e","r","v","i","e","w","]","(","T","o","o","l","s","-","O",
    "v","e","r","v","i","e","w",")","\n">>

\* create_wiki_structure.py:24-33
placeholder_content ==
  <<"#"," ","{","t","i","t","l","e","}","\n","\n","[","T","h","i","s"," ",
    "i","s"," ","a"," ","p","l","a","c","e","h","o","l","d","e","r","."," ",
    "O","r","i","g","i","n","a","l"," ","c","o","n","t","e","n","t"," ","t",
    "o"," ","b","e"," ","m","i","g","r","a","t","e","d",".","]","\n","\n",
    "#","#"," ","N","a","v","i","g","a","t","i","o","n","\n","-"," ","[",
    "H","o","m","e","]","(","H","o","m","e",")","\n","-"," ","[","P","r",
    "o","j","e","c","t"," ","S","t","r","u","c","t","u","r","e","]","(","P",
    "r","o","j","e","c","t","-","S","t","r","u","c","t","u","r","e",")",
    "\n","-"," ","[","D","e","v","e","l","o","p","m","e","n","t"," ","S",
    "e","t","u","p","]","(","D","e","v","e","l","o","p","m","e","n","t","-",
    "S","e","t","u","p",")","\n","-"," ","[","T","o","o","l","s"," ","O",
    "v","e","r","v","i","e","w","]","(","T","o","o","l","s","-","O","v","e",
    "r","v","i","e","w",")","\n">>

\* create_wiki_structure.py:46-56, the arguments of the eleven print calls
next_steps ==
  << <<"\n","N","e","x","t"," ","s","t","e","p","s",":">>,
     <<"1","."," ","I","n","i","t","i","a","l","i","z","e"," ","g","i","t",
        " ","r","e","p","o","s","i","t","o","r","y",":">>,
     <<" "," "," ","g","i","t"," ","i","n","i","t">>,
     <<"2","."," ","A","d","d"," ","a","l","l"," ","f","i","l","e","s",":">>,
     <<" "," "," ","g","i","t"," ","a","d","d"," ",".">>,
     <<"3","."," ","M","a","k","e"," ","i","n","i","t","i","a","l"," ","c",
        "o","m","m","i","t",":">>,
     <<" "," "," ","g","i","t"," ","c","o","m","m","i","t"," ","-","m"," ",
        "\"","I","n","i","t","i","a","l"," ","w","i","k","i"," ","s","t",
        "r","u","c","t","u","r","e"," ","w","i","t","h"," ","v","a","l","i",
        "d"," ","f","i","l","e","n","a","m","e","s","\"">>,
     <<"4","."," ","A","d","d"," ","G","i","t","H","u","b"," ","w","i","k",
        "i"," ","r","e","m","o","t","e",":">>,
     <<" "," "," ","g","i","t"," ","r","e","m","o","t","e"," ","a","d","d",
        " ","o","r","i","g","i","n"," ","h","t","t","p","s",":","/","/","g",
        "i","t","h","u","b",".","c","o","m","/","m","a","r","k","v","s","h",
        "a","n","e","y","/","L","L","M","_","P","r","o","j","e","c","t",".",
        "w","i","k","i",".","g","i","t">>,
     <<"5","."," ","P","u","s","h"," ","t","o"," ","G","i","t","H","u","b",
        " ","(","y","o","u"," ","m","a","y"," ","n","e","e","d"," ","t","o",
        " ","f","o","r","c","e"," ","p","u","s","h",")",":">>,
     <<" "," "," ","g","i","t"," ","p","u","s","h"," ","-","f"," ","o","r",
        "i","g","i","n"," ","m","a","s","t","e","r">> >>

(***************************************************************************)
(* Library functions the script calls, computed as the library does.       *)
(***************************************************************************)
\* the largest index of character c in s, 0 when absent (str.rfind, 1-based)
rfind(s, c) ==
  LET hits == {k \in 1..Len(s) : s[k] = c}
  IN  IF hits = {} THEN 0 ELSE CHOOSE k \in hits : \A m \in hits : m <= k

\* the smallest index of character c in s, 0 when absent (str.find, 1-based)
find(s, c) ==
  LET hits == {k \in 1..Len(s) : s[k] = c}
  IN  IF hits = {} THEN 0 ELSE CHOOSE k \in hits : \A m \in hits : k <= m

\* os.path.splitext (genericpath._splitext with sep "/", extsep "."):
\* split at the last dot when it follows the last separator and some
\* character between the separator and the dot is not itself a dot
splitext(p) ==
  LET sepIndex == rfind(p, "/")
      dotIndex == rfind(p, ".")
  IN  IF /\ dotIndex > sepIndex
         /\ \E k \in (sepIndex + 1)..(dotIndex - 1) : p[k] # "."
      THEN << SubSeq(p, 1, dotIndex - 1), SubSeq(p, dotIndex, Len(p)) >>
      ELSE << p, << >> >>

\* str.replace(old, new, 1): the first occurrence only
replace_first(s, old, new) ==
  [k \in 1..Len(s) |-> IF s[k] = old /\ k = find(s, old) THEN new ELSE s[k]]

\* str.replace(old, new) for one-character old and new: every occurrence
replace(s, old, new) ==
  [k \in 1..Len(s) |-> IF s[k] = old THEN new ELSE s[k]]

\* the name of the single keyword argument of the format call
title_field == <<"t","i","t","l","e">>

\* str.format(title=t), as the format-string parser works: literal text
\* runs up to the next brace; a doubled brace is one literal brace; "{title}"
\* is replaced by t, and the substituted text is not scanned again.  (A
\* lone "}" or another field name raises in Python; the template has none.)
RECURSIVE format(_, _)
format(s, t) ==
  LET braces == {j \in 1..Len(s) : s[j] \in {"{", "}"}}
  IN  IF braces = {} THEN s
      ELSE
        LET b    == CHOOSE j \in braces : \A m \in braces : j <= m
            lit  == SubSeq(s, 1, b - 1)
            rest == SubSeq(s, b, Len(s))
        IN  IF Len(rest) >= 2 /\ rest[2] = rest[1]
              THEN lit \o <<rest[1]>> \o format(SubSeq(rest, 3, Len(rest)), t)
            ELSE IF rest[1] = "{" /\ find(rest, "}") > 0
              THEN LET close == find(rest, "}")
                       field == SubSeq(rest, 2, close - 1)
                   IN  lit \o (IF field = title_field THEN t ELSE << >>)
                           \o format(SubSeq(rest, close + 1, Len(rest)), t)
            ELSE lit \o <<rest[1]>> \o format(Tail(rest), t)

\* line 38: the title of a page name
derive_title(p) == replace(splitext(p)[1], "-", " ")

\* line 42: the text written into the file of a page with title t
render(t) == format(placeholder_content, t)

\* line 44: the text of print(f"Created {page}"), with print's newline
created_line(p) == <<"C","r","e","a","t","e","d"," ">> \o p \o <<"\n">>

\* lines 46-56: the text of the k-th instruction print, with print's newline
next_line(k) == next_steps[k] \o <<"\n">>

(***************************************************************************)
(* The environment: the working directory.                                 *)
(***************************************************************************)
\* a file of the directory that the script does not name
OtherFile == <<"R","E","A","D","M","E",".","m","d">>

\* the files that may exist before the first run
PreCandidates == {pages[1], pages[2], pages[Len(pages)], OtherFile}

\* what such a file may hold
OldContents ==
  { << >>, <<"o","l","d","\n">>, render(<<"O","l","d"," ","p","a","g","e">>) }

\* how much of the buffer reaches the file when the flush at close fails
PartialLens(buf) == {0, Len(buf) \div 2}

\* open(page, 'a') keeps what the file holds
opened_content_append(old) == old

\* open(page, 'w') truncates: the content the file has right after the open
opened_content(old) == << >>

\* the handle value when no file is open
NoHandle == [open |-> FALSE, name |-> << >>, buf |-> << >>]

\* an entry of the log of input/output operations
Event(op, arg) == [op |-> op, arg |-> arg]

VARIABLES
  fs,        \* the working directory: file name -> content
  pc,        \* the position of the script
  i,         \* how many pages the for loop has taken from the list
  page,      \* the loop variable
  title,     \* line 38
  f,         \* the file object of the with statement
  k,         \* how many of the instruction prints have run
  stdout,    \* what the process has printed, one entry per print call
  exit,      \* the exit status, -1 while the process runs
  run,       \* the number of the current run
  pre,       \* the directory as the current run found it
  first,     \* the directory as the first run found it
  trace      \* the input/output operations of the current run, in order

vars == << fs, pc, i, page, title, f, k, stdout, exit, run, pre, first,
           trace >>

Init ==
  /\ \E S \in SUBSET PreCandidates :
       /\ Cardinality(S) <= MaxPre
       /\ fs \in [S -> OldContents]
  /\ pre = fs
  /\ first = fs
  /\ pc = "for"
  /\ i = 0
  /\ page = << >>
  /\ title = << >>
  /\ f = NoHandle
  /\ k = 0
  /\ stdout = << >>
  /\ exit = -1
  /\ run = 1
  /\ trace = << >>

\* a loop that stops after its first page
more_pages_first_only == i < 1

\* the for statement has another page to take
more_pages == i < Len(pages)

\* line 36: the loop takes the next page of the list
ForNext ==
  /\ pc = "for"
  /\ more_pages
  /\ i' = i + 1
  /\ page' = pages[i + 1]
  /\ pc' = "title"
  /\ UNCHANGED << fs, title, f, k, stdout, exit, run, pre, trace, first >>

\* line 36: the list is exhausted, control leaves the loop
ForEnd ==
  /\ pc = "for"
  /\ ~more_pages
  /\ pc' = "next"
  /\ UNCHANGED << fs, i, page, title, f, k, stdout, exit, run, pre, trace,
                  first >>

\* line 38
Title ==
  /\ pc = "title"
  /\ title' = derive_title(page)
  /\ pc' = "open"
  /\ UNCHANGED << fs, i, page, f, k, stdout, exit, run, pre, trace, first >>

\* open(title, 'w', ...): the file is named by the title, not by the page
OpenNamedByTitle ==
  /\ pc = "open"
  /\ fs' = [n \in DOMAIN fs \cup {title} |->
              IF n = title THEN << >> ELSE fs[n]]
  /\ f' = [open |-> TRUE, name |-> title, buf |-> << >>]
  /\ trace' = Append(trace, Event("open", title))
  /\ pc' = "write"
  /\ UNCHANGED << i, page, title, k, stdout, exit, run, pre, first >>

\* line 41: open(page, 'w', encoding='utf-8') creates or truncates the file
Open ==
  /\ pc = "open"
  /\ fs' = [n \in DOMAIN fs \cup {page} |->
              IF n = page
              THEN (IF page \in DOMAIN fs THEN opened_content(fs[page])
                    ELSE << >>)
              ELSE fs[n]]
  /\ f' = [open |-> TRUE, name |-> page, buf |-> << >>]
  /\ trace' = Append(trace, Event("open", page))
  /\ pc' = "write"
  /\ UNCHANGED << i, page, title, k, stdout, exit, run, pre, first >>

\* an except clause around the open that goes on with the next page
OpenFailSkipped ==
  /\ pc = "open"
  /\ trace' = Append(trace, Event("raise", page))
  /\ pc' = "for"
  /\ UNCHANGED << fs, i, page, title, f, k, stdout, exit, run, pre, first >>

\* line 41: open raises OSError; nothing catches it, the process ends
OpenFail ==
  /\ pc = "open"
  /\ trace' = Append(trace, Event("raise", page))
  /\ pc' = "failed"
  /\ exit' = 1
  /\ UNCHANGED << fs, i, page, title, f, k, stdout, run, pre, first >>

\* line 42: f.write puts the rendered text into the file object's buffer
Write ==
  /\ pc = "write"
  /\ f.open
  /\ f' = [f EXCEPT !.buf = f.buf \o render(title)]
  /\ trace' = Append(trace, Event("write", f.name))
  /\ pc' = "close"
  /\ UNCHANGED << fs, i, page, title, k, stdout, exit, run, pre, first >>

\* no with statement: the file object is left open and unflushed
CloseLeak ==
  /\ pc = "close"
  /\ f.open
  /\ pc' = "print"
  /\ UNCHANGED << fs, i, page, title, f, k, stdout, exit, run, pre, trace,
                  first >>

\* line 42: leaving the with block closes the file, which flushes the buffer
Close ==
  /\ pc = "close"
  /\ f.open
  /\ fs' = [fs EXCEPT ![f.name] = fs[f.name] \o f.buf]
  /\ f' = NoHandle
  /\ trace' = Append(trace, Event("close", f.name))
  /\ pc' = "print"
  /\ UNCHANGED << i, page, title, k, stdout, exit, run, pre, first >>

\* an except clause around the with block that swallows the error
CloseFailSwallowed ==
  /\ pc = "close"
  /\ f.open
  /\ \E n \in PartialLens(f.buf) :
       fs' = [fs EXCEPT ![f.name] = fs[f.name] \o SubSeq(f.buf, 1, n)]
  /\ f' = NoHandle
  /\ trace' = Append(trace, Event("raise", f.name))
  /\ pc' = "print"
  /\ UNCHANGED << i, page, title, k, stdout, exit, run, pre, first >>

\* a failure handler that restores the directory the run found
CloseFailRollback ==
  /\ pc = "close"
  /\ f.open
  /\ fs' = pre
  /\ f' = NoHandle
  /\ trace' = Append(trace, Event("raise", f.name))
  /\ pc' = "failed"
  /\ exit' = 1
  /\ UNCHANGED << i, page, title, k, stdout, run, pre, first >>

\* line 42: the flush at close raises OSError (disk full, I/O error); part
\* of the buffer may have reached the file; the process ends
CloseFail ==
  /\ pc = "close"
  /\ f.open
  /\ \E n \in PartialLens(f.buf) :
       fs' = [fs EXCEPT ![f.name] = fs[f.name] \o SubSeq(f.buf, 1, n)]
  /\ f' = NoHandle
  /\ trace' = Append(trace, Event("raise", f.name))
  /\ pc' = "failed"
  /\ exit' = 1
  /\ UNCHANGED << i, page, title, k, stdout, run, pre, first >>

\* line 44
ReportCreated ==
  /\ pc = "print"
  /\ stdout' = Append(stdout, created_line(page))
  /\ trace' = Append(trace, Event("print", created_line(page)))
  /\ pc' = "for"
  /\ UNCHANGED << fs, i, page, title, f, k, exit, run, pre, first >>

\* lines 46-56: the next of the eleven instruction prints
ReportNextStep ==
  /\ pc = "next"
  /\ k < Len(next_steps)
  /\ k' = k + 1
  /\ stdout' = Append(stdout, next_line(k + 1))
  /\ trace' = Append(trace, Event("print", next_line(k + 1)))
  /\ UNCHANGED << fs, pc, i, page, title, f, exit, run, pre, first >>

\* line 56: the end of the script, the process exits with status 0
Exit ==
  /\ pc = "next"
  /\ k = Len(next_steps)
  /\ pc' = "done"
  /\ exit' = 0
  /\ UNCHANGED << fs, i, page, title, f, k, stdout, run, pre, trace, first >>

\* the script is run again in the same directory after a successful run:
\* a new process
StartRun ==
  /\ pc = "done"
  /\ run < MaxRuns
  /\ run' = run + 1
  /\ pre' = fs
  /\ pc' = "for"
  /\ i' = 0
  /\ page' = << >>
  /\ title' = << >>
  /\ f' = NoHandle
  /\ k' = 0
  /\ stdout' = << >>
  /\ exit' = -1
  /\ trace' = << >>
  /\ UNCHANGED << fs, first >>

Next ==
  \/ ForNext
  \/ ForEnd
  \/ Title
  \/ Open
  \/ OpenFail
  \/ Write
  \/ Close
  \/ CloseFail
  \/ ReportCreated
  \/ ReportNextStep
  \/ Exit
  \/ StartRun

Spec == Init /\ [][Next]_vars

(***************************************************************************)
(* Vocabulary of the properties.                                           *)
(***************************************************************************)
PageNames == {pages[n] : n \in 1..Len(pages)}

\* page n has been written and closed in the current run
Written(n) ==
  \/ n < i
  \/ n = i /\ pc \in {"print", "for", "next", "done"}

\* the text of c up to, and after, its first newline
FirstLine(c) == SubSeq(c, 1, find(c, "\n") - 1)
AfterFirstLine(c) == SubSeq(c, find(c, "\n"), Len(c))

\* t is p without its last three characters ".md", hyphens turned to spaces
IsTitleOf(t, p) ==
  /\ Len(p) >= 3
  /\ SubSeq(p, Len(p) - 2, Len(p)) = <<".","m","d">>
  /\ Len(t) = Len(p) - 3
  /\ \A j \in 1..Len(t) : t[j] = (IF p[j] = "-" THEN " " ELSE p[j])

IsCreatedLine(l) ==
  Len(l) >= 8 /\ SubSeq(l, 1, 8) = <<"C","r","e","a","t","e","d"," ">>

IsNextLine(l) == \E m \in 1..Len(next_steps) : l = next_line(m)

CreatedLines == SelectSeq(stdout, IsCreatedLine)
NextLines == SelectSeq(stdout, IsNextLine)

\* the text the script renders for page n
ExpectedContent ==
  [n \in 1..Len(pages) |-> render(derive_title(pages[n]))]

(***************************************************************************)
(* C1: after a run that completes without a write failure, every one of    *)
(* the 16 page names is a file of the working directory whose whole        *)
(* content is the template rendered with that page's own title; the 16     *)
(* names are pairwise distinct, so 16 files result.                        *)
(***************************************************************************)
C1_AllPagesWritten ==
  pc = "done" =>
    /\ Len(pages) = 16
    /\ Cardinality(PageNames) = 16
    /\ PageNames \subseteq DOMAIN fs
    /\ \A n \in 1..Len(pages) :
         /\ fs[pages[n]] = ExpectedContent[n]
         /\ SubSeq(pages[n], Len(pages[n]) - 2, Len(pages[n])) = <<".","m","d">>
    /\ Cardinality({fs[p] : p \in PageNames}) = 16

\* a first run has completed over a directory that held an old first page
C1_Witness ==
  /\ pc = "done"
  /\ run = 1
  /\ pages[1] \in DOMAIN pre
  /\ pre[pages[1]] # << >>

(***************************************************************************)
(* C2: the title written into the file of a page is the page name with     *)
(* its trailing extension removed and every hyphen replaced by a space,    *)
(* and the first line of the file is "# " followed by that title.          *)
(***************************************************************************)
C2_TitleDerivation ==
  /\ pc \in {"open", "write", "close", "print"} => IsTitleOf(title, page)
  /\ pc \in {"print", "done", "failed"} =>
       \A n \in 1..Len(pages) :
         Written(n) =>
           LET line == FirstLine(fs[pages[n]])
           IN  /\ SubSeq(line, 1, 2) = <<"#"," ">>
               /\ IsTitleOf(SubSeq(line, 3, Len(line)), pages[n])
  /\ (pc = "open" /\ page = <<"S","e","t","u","p","-","V","S","-","C","o","d","e","-","M","i","n","i",
    "c","o","n","d","a",".","m","d">>)
       => title = <<"S","e","t","u","p"," ","V","S"," ","C","o","d","e"," ","M","i","n","i",
    "c","o","n","d","a">>
  /\ (pc = "open" /\ page = <<"H","o","m","e",".","m","d">>) => title = <<"H","o","m","e">>

\* the file of the page with three hyphens has been written
C2_Witness ==
  /\ pc = "print"
  /\ page = <<"S","e","t","u","p","-","V","S","-","C","o","d","e","-","M","i","n","i",
    "c","o","n","d","a",".","m","d">>
  /\ FirstLine(fs[page]) = <<"#"," ","S","e","t","u","p"," ","V","S"," ","C","o","d","e"," ","M","i",
    "n","i","c","o","n","d","a">>

(***************************************************************************)
(* C3: a failure to create or write the file of a page is not caught: the  *)
(* run halts at that page in a failed state with a non-zero exit status,   *)
(* and no later page is opened or written in that run.                     *)
(***************************************************************************)
C3_FailureHalts ==
  [][ /\ (trace' # trace /\ trace' # << >> /\ trace'[Len(trace')].op = "raise")
           => /\ pc' = "failed"
              /\ exit' # 0 /\ exit' # -1
              /\ i' = i
              /\ trace'[Len(trace')].arg = pages[i]
      /\ pc' = "failed" =>
           /\ exit' = 1
           /\ ~f'.open
           /\ \A j \in 1..Len(trace') :
                trace'[j].op \in {"open", "write", "close", "raise"} =>
                  \E n \in 1..i' : trace'[j].arg = pages[n]
      /\ pc # "failed"
    ]_vars

\* a run has failed before the end of the list
C3_Witness ==
  /\ pc = "failed"
  /\ i > 1
  /\ i < Len(pages)
  /\ page \in DOMAIN fs


(***************************************************************************)
(* C4: in every run the "Created <filename>" lines printed so far name a   *)
(* prefix of the page list in list order, a page is reported only if its   *)
(* file was fully written in this run, and on a failure at page i exactly  *)
(* the i-1 preceding pages have been reported.                             *)
(***************************************************************************)
C4_CreatedLinesArePrefix ==
  LET cl == CreatedLines
      n  == Len(cl)
  IN  /\ n <= Len(pages)
      /\ \A m \in 1..n :
           /\ cl[m] = created_line(pages[m])
           /\ stdout[m] = cl[m]
           /\ Len(trace) >= 4 * m - 1
           /\ trace[4 * m - 1] = Event("close", pages[m])
           /\ pages[m] \in DOMAIN fs
           /\ (pc \in {"done", "failed"} \/ (pc = "for" /\ m = i))
                => fs[pages[m]] = ExpectedContent[m]
      /\ pc = "failed" => n = i - 1

\* a run has failed at the third page after reporting two
C4_Witness ==
  /\ pc = "failed"
  /\ i = 3
  /\ Len(CreatedLines) = 2
  /\ trace[Len(trace)] = Event("raise", pages[3])

(***************************************************************************)
(* C5: running the script twice in succession, both runs succeeding,       *)
(* leaves each of the 16 files with the content the first run gave it,     *)
(* whatever the file held before the first run.                            *)
(***************************************************************************)
C5_SecondRunIdempotent ==
  (pc = "done" /\ run >= 2) =>
    \A p \in PageNames :
      /\ p \in DOMAIN fs
      /\ p \in DOMAIN pre
      /\ fs[p] = pre[p]

\* a second successful run, the first one over an old non-empty page
C5_Witness ==
  /\ pc = "done"
  /\ run = 2
  /\ pages[1] \in DOMAIN first
  /\ first[pages[1]] = <<"o","l","d","\n">>
  /\ fs[pages[1]] = ExpectedContent[1]

(***************************************************************************)
(* C6: the "Next steps" block is printed only after all 16 pages have      *)
(* been written and reported, exactly once in a successful run and never   *)
(* in a failed one; the script performs none of the actions it lists.      *)
(***************************************************************************)
C6_NextStepsAfterAllPages ==
  /\ NextLines # << >> =>
       /\ i = Len(pages)
       /\ i = 16
       /\ \A n \in 1..Len(pages) : Written(n)
       /\ Len(CreatedLines) = Len(pages)
       /\ \A m \in 1..Len(pages) : stdout[m] = created_line(pages[m])
  /\ pc = "done" =>
       /\ Len(next_steps) = 11
       /\ NextLines = [m \in 1..Len(next_steps) |-> next_line(m)]
       /\ stdout = CreatedLines \o NextLines
  /\ pc = "failed" => NextLines = << >>
  /\ \A j \in 1..Len(trace) :
       trace[j].op \in {"open", "write", "close", "print", "raise"}
  /\ DOMAIN fs \subseteq DOMAIN pre \cup PageNames

\* a run has ended successfully with the whole block printed
C6_Witness ==
  /\ pc = "done"
  /\ Len(NextLines) = 11
  /\ Len(stdout) = 27

(***************************************************************************)
(* C7: pages are processed strictly in list order: the file of page n+1    *)
(* is not opened until the file of page n has been written and closed, at  *)
(* most one file is open at any moment, and the "Created" line of a page   *)
(* comes after its close and before the next open.                         *)
(***************************************************************************)
\* the j-th operation of a run in which nothing fails, for j up to 4 * 16
ExpectedOp(j) ==
  LET n == ((j - 1) \div 4) + 1
      r == (j - 1) % 4
  IN  CASE r = 0 -> Event("open", pages[n])
        [] r = 1 -> Event("write", pages[n])
        [] r = 2 -> Event("close", pages[n])
        [] r = 3 -> Event("print", created_line(pages[n]))

C7_StrictlySequential ==
  /\ \A j \in 1..Len(trace) :
       /\ j <= 4 * Len(pages) =>
            \/ trace[j] = ExpectedOp(j)
            \/ /\ j = Len(trace)
               /\ pc = "failed"
               /\ trace[j] = Event("raise", ExpectedOp(j).arg)
               /\ ExpectedOp(j).op \in {"open", "close"}
       /\ j > 4 * Len(pages) => IsNextLine(trace[j].arg)
  /\ f.open => (f.name = page /\ page = pages[i] /\ pc \in {"write", "close"})
  /\ f.open <=> (trace # << >> /\ trace[Len(trace)].op \in {"open", "write"})

\* the second page is open after the first one was closed and reported
C7_Witness ==
  /\ pc = "close"
  /\ i = 2
  /\ f.open
  /\ Len(trace) = 6
  /\ trace[3].op = "close"
  /\ trace[4].op = "print"


(***************************************************************************)
(* C8: every generated file contains the same fixed navigation block, a    *)
(* "## Navigation" heading followed by exactly the four links Home ->      *)
(* Home, Project Structure -> Project-Structure, Development Setup ->      *)
(* Development-Setup, Tools Overview -> Tools-Overview; any two generated  *)
(* files differ only in the title on their first line.                     *)
(***************************************************************************)
NavLink(label, target) ==
  <<"-"," ","[">> \o label \o <<"]","(">> \o target \o <<")","\n">>

NavBlock ==
  <<"#","#"," ","N","a","v","i","g","a","t","i","o","n","\n">>
    \o NavLink(<<"H","o","m","e">>, <<"H","o","m","e">>)
    \o NavLink(<<"P","r","o","j","e","c","t"," ","S","t","r","u","c","t","u","r","e">>,
               <<"P","r","o","j","e","c","t","-","S","t","r","u","c","t","u","r","e">>)
    \o NavLink(<<"D","e","v","e","l","o","p","m","e","n","t"," ","S","e","t","u","p">>,
               <<"D","e","v","e","l","o","p","m","e","n","t","-","S","e","t","u","p">>)
    \o NavLink(<<"T","o","o","l","s"," ","O","v","e","r","v","i","e","w">>,
               <<"T","o","o","l","s","-","O","v","e","r","v","i","e","w">>)

\* the number of link lines "- [" of c
LinkCount(c) ==
  Cardinality({j \in 1..(Len(c) - 2) :
                 c[j] = "-" /\ c[j + 1] = " " /\ c[j + 2] = "["})

EndsWith(c, s) ==
  Len(c) >= Len(s) /\ SubSeq(c, Len(c) - Len(s) + 1, Len(c)) = s

C8_SameNavigationBlock ==
  pc \in {"print", "done", "failed"} =>
    \A n \in 1..Len(pages) :
      Written(n) =>
        /\ EndsWith(fs[pages[n]], NavBlock)
        /\ LinkCount(fs[pages[n]]) = 4
        /\ AfterFirstLine(fs[pages[n]]) = AfterFirstLine(fs[pages[1]])
        /\ FirstLine(fs[pages[n]]) = <<"#"," ">> \o derive_title(pages[n])

\* the last page, whose title is not one of the four link labels, is written
C8_Witness ==
  /\ pc = "print"
  /\ i = Len(pages)
  /\ EndsWith(fs[page], NavBlock)
  /\ FirstLine(fs[page]) # FirstLine(fs[pages[1]])

(***************************************************************************)
(* C9 as stated: "Guide-VS-Code.md" is not a member of the list of 16      *)
(* page names, whereas "Guide-LangChain.md" is a member and yields the     *)
(* title "Guide LangChain".                                                *)
(***************************************************************************)
GuideVSCode == <<"G","u","i","d","e","-","V","S","-","C","o","d","e",".","m","d">>
GuideLangChain == <<"G","u","i","d","e","-","L","a","n","g","C","h","a","i","n",".","m","d">>

C9_GuideVSCodeNotInList ==
  /\ GuideVSCode \notin PageNames
  /\ \A j \in 1..Len(trace) : trace[j].arg # GuideVSCode
  /\ GuideLangChain \in PageNames
  /\ (pc = "open" /\ page = GuideLangChain)
       => title = <<"G","u","i","d","e"," ","L","a","n","g","C","h","a","i","n">>

(***************************************************************************)
(* C9 as the code has it: both "Guide-VS-Code.md" and "Guide-LangChain.md" *)
(* are members of the list of 16 page names (the 7th and the 14th); they   *)
(* yield the titles "Guide VS Code" and "Guide LangChain".                 *)
(***************************************************************************)
C9_BothGuidesInList ==
  /\ Len(pages) = 16
  /\ pages[7] = GuideVSCode
  /\ pages[14] = GuideLangChain
  /\ (pc = "open" /\ i = 7)
       => (page = GuideVSCode /\ title = <<"G","u","i","d","e"," ","V","S"," ","C","o","d","e">>)
  /\ (pc = "open" /\ i = 14)
       => (page = GuideLangChain /\ title = <<"G","u","i","d","e"," ","L","a","n","g","C","h","a","i","n">>)
  /\ pc = "done" =>
       /\ FirstLine(fs[GuideVSCode]) = <<"#"," ","G","u","i","d","e"," ","V","S"," ","C","o","d","e">>
       /\ FirstLine(fs[GuideLangChain]) = <<"#"," ","G","u","i","d","e"," ","L","a","n","g","C","h","a","i","n">>

\* a run has written the file of "Guide-VS-Code.md" and of "Guide-LangChain.md"
C9_Witness ==
  /\ pc = "done"
  /\ GuideVSCode \in DOMAIN fs
  /\ GuideVSCode \notin DOMAIN pre
  /\ trace[4 * 7 - 3] = Event("open", GuideVSCode)
  /\ trace[4 * 14 - 3] = Event("open", GuideLangChain)

(***************************************************************************)
(* C10: at every point of every run the only files whose content differs   *)
(* from its pre-run content are files of pages at or before the current    *)
(* page; after a failure at page i the files of pages i+1..16 hold their   *)
(* pre-run content or still do not exist, and the files of pages 1..i-1    *)
(* hold their fully rendered content.                                      *)
(***************************************************************************)
SameAsBefore(name) ==
  IF name \in DOMAIN pre
    THEN name \in DOMAIN fs /\ fs[name] = pre[name]
    ELSE name \notin DOMAIN fs

C10_OnlyProcessedPagesChange ==
  /\ \A name \in DOMAIN fs \cup DOMAIN pre :
       ~SameAsBefore(name) => \E n \in 1..i : pages[n] = name
  /\ \A n \in (i + 1)..Len(pages) : SameAsBefore(pages[n])
  /\ SameAsBefore(OtherFile)
  /\ pc = "failed" =>
       \A n \in 1..(i - 1) :
         pages[n] \in DOMAIN fs /\ fs[pages[n]] = ExpectedContent[n]

\* a run fails at the second page while the last page holds its old content
C10_Witness ==
  /\ pc = "failed"
  /\ i = 2
  /\ pages[Len(pages)] \in DOMAIN pre
  /\ fs[pages[Len(pages)]] = <<"o","l","d","\n">>
  /\ fs[pages[1]] = ExpectedContent[1]

=============================================================================
